---- MODULE Spec2Model ----
(***************************************************************************)
(* Queue-gated admission and delayed dispatch of the Pigeon SMS webhook.   *)
(*                                                                         *)
(* The model follows main.py (startup_event, handle_message,               *)
(* send_delayed_message), message_processor.py                             *)
(* (process_message_if_queue_empty), rabbitmq_service.py and               *)
(* mongodb_service.py.  The broker queue and the store collection live     *)
(* outside the process; every remote call either succeeds or fails.        *)
(*                                                                         *)
(* Scheduling: the application runs one asyncio event loop                 *)
(* (uvicorn.run(app), main.py:233-235).  handle_message is a coroutine     *)
(* without any await, so a handler that was started runs to its return     *)
(* before the loop runs anything else; send_delayed_message has one        *)
(* await, the sleep, and runs to its end once the sleep is over.           *)
(*                                                                         *)
(* Spec is the application.  AnalyzerSpec is the delay extraction of       *)
(* gpt_agent.py (analyze_time_sensitive_conversation) on every reply of a  *)
(* few tokens; ServiceSpec is the methods of the two services called       *)
(* directly, in any order; ChatAgentSpec is the conversation history of    *)
(* gpt_agent.py (ChatAgent) under any sequence of calls of its methods.    *)
(***************************************************************************)
EXTENDS Integers, Sequences, FiniteSets, TLC

\* ---------------------------------------------------------------- bounds
\* Inbound messages (one handle_message call each) in a run.
MaxMsgs == 3
\* Entries left in the queue and in the collection by an earlier run.
MaxPre == 1
\* Tokens in a reply of the model to analyze_time_sensitive_conversation.
MaxTextLen == 6
\* Entries of ChatAgent.conversation_history.
MaxHistory == 4

Msgs == 1..MaxMsgs

\* ------------------------------------------------------------- constants
\* The Twilio number that receives the inbound messages (the To field).
TwilioNumber == "T"
\* to="whatsapp:+917355620545"
WhatsAppNumber == "W"
\* The number inbound message h comes from (the From field): two senders.
From(h) == IF h % 2 = 1 THEN "A" ELSE "B"

NoTask == <<"none", 0>>
Unset == -2
NoneVal == -1

VARIABLES
    phase,      \* "boot" before startup_event, "up" after it
    queue,      \* the broker queue pigeon_queue: sequence of payloads
    log,        \* the collection sms_messages: documents in insertion order
    frame,      \* per inbound message: the locals of its handle_message call
    task,       \* per inbound message: its send_delayed_message task
    timers,     \* the sleeping tasks, in the order their sleeps end
    running,    \* the coroutine the event loop is running, or NoTask
    markers,    \* messages whose payload was published and not purged since
    response_content,  \* gpt_agent: the reply of the model, a list of tokens
    delay_data,        \* gpt_agent: what analyze_time_sensitive_conversation returns
    invoked,           \* the services called directly: the last two calls
    conversation_history,  \* ChatAgent: the list of role/content entries
    answer                 \* ChatAgent: the last method called, what it returned

vars == <<phase, queue, log, frame, task, timers, running, markers,
          response_content, delay_data, invoked, conversation_history, answer>>

\* ------------------------------------------------- gpt_agent: ChatAgent
\* A Python value that is a string, and None.
Str(s) == <<"str", s>>
None == <<"None", "">>

\* self.system_message
SystemMessage == Str("You are a helpful assistant")

\* {"role": role, "content": content}
Entry(role, content) == [role |-> role, content |-> content]

\* reset_conversation: the history is the system message alone
SystemOnly == <<Entry("system", SystemMessage)>>

\* what the callers pass and what the model replies (message.content is
\* None for a reply without text)
Roles == {"system", "user", "assistant"}
UserMessages == {Str("hi")}
Completions == {Str("hello"), None}

\* an add_message that puts the entry in front of the list
AddMessageFront(history, role, content) ==
    <<Entry(role, content)>> \o history

\* add_message: self.conversation_history.append(...)
AddMessageTo(history, role, content) == Append(history, Entry(role, content))

\* a quick_question that records the question and the reply
QuickHistoryRecorded(history, question, content) ==
    AddMessageTo(AddMessageTo(history, "user", question), "assistant", content)

\* quick_question sends a list of its own and does not touch the history
QuickHistory(history, question, content) == history

\* what a method returned: raised tells that the call of the API raised
\* inside the method
Answer(op, raised, value) == [op |-> op, raised |-> raised, value |-> value]
NoAnswer == Answer("__init__", FALSE, None)

\* ------------------------------------------- gpt_agent: delay extraction
\* A reply is written as a list of tokens separated by blanks, a colon
\* directly after the token before it: braces, the colon, the strings
\* "delay" and "2 hours", the number 5 and a word of prose.
LBrace == "{"
RBrace == "}"
Colon == ":"
QDelay == "\"delay\""
QHours == "\"2 hours\""
Five == "5"
Word == "sure"

Tokens == {LBrace, RBrace, Colon, QDelay, QHours, Five, Word}
StringTokens == {QDelay, QHours}

Texts == UNION {[1..n -> Tokens] : n \in 0..MaxTextLen}

\* the characters between the quotes of a string token
Unquote(tok) == IF tok = QDelay THEN "delay" ELSE "2 hours"

\* JSON values: a string, a number, a dict (its items in order)
StrVal(s) == [kind |-> "str", s |-> s, items |-> << >>]
NumVal(s) == [kind |-> "num", s |-> s, items |-> << >>]
DictVal(items) == [kind |-> "dict", s |-> "", items |-> items]
NoData == [kind |-> "unset", s |-> "", items |-> << >>]

\* json.loads(t) does not raise JSONDecodeError: t is one JSON value
RECURSIVE IsValue(_)
IsValue(t) ==
    \/ Len(t) = 1 /\ t[1] \in StringTokens \cup {Five}
    \/ t = <<LBrace, RBrace>>
    \/ /\ Len(t) >= 5
       /\ t[1] = LBrace /\ t[2] \in StringTokens /\ t[3] = Colon
       /\ t[Len(t)] = RBrace
       /\ IsValue(SubSeq(t, 4, Len(t) - 1))

\* json.loads(t) for a t that is one JSON value
RECURSIVE Loads(_)
Loads(t) ==
    IF Len(t) = 1
    THEN IF t[1] = Five THEN NumVal(Five) ELSE StrVal(Unquote(t[1]))
    ELSE IF Len(t) = 2 THEN DictVal(<< >>)
    ELSE DictVal(<< <<Unquote(t[2]), Loads(SubSeq(t, 4, Len(t) - 1))>> >>)

Min(S) == CHOOSE x \in S : \A y \in S : x <= y
Max(S) == CHOOSE x \in S : \A y \in S : x >= y

\* the positions of a "delay" that a closing brace follows
DelayThenClose(t) ==
    {j \in 1..Len(t) : t[j] = QDelay /\ \E k \in (j + 1)..Len(t) : t[k] = RBrace}

\* the positions where a match of the fragment pattern can start
FragmentStarts(t) ==
    {i \in 1..Len(t) : t[i] = LBrace /\ \E j \in DelayThenClose(t) : j > i}

\* a greedy search: the fragment runs to the last closing brace
JsonMatchGreedy(t) ==
    IF FragmentStarts(t) = {} THEN << >>
    ELSE SubSeq(t, Min(FragmentStarts(t)),
                Max({k \in 1..Len(t) : t[k] = RBrace}))

\* re.search(r'\{.*?"delay".*?\}', response_content, re.DOTALL): from the
\* first opening brace that has a "delay" and then a closing brace after
\* it, up to the first closing brace after the first "delay"; << >> for
\* no match
JsonMatch(t) ==
    IF FragmentStarts(t) = {} THEN << >>
    ELSE LET i == Min(FragmentStarts(t))
             j == Min({j \in DelayThenClose(t) : j > i})
             k == Min({k \in (j + 1)..Len(t) : t[k] = RBrace})
         IN  SubSeq(t, i, k)

\* "delay" in response_content.lower()
Mentions(t) == \E j \in 1..Len(t) : t[j] = QDelay

\* the positions where re.search(r'"delay":\s*"([^"]*)"', ...) matches
DelayMatches(t) ==
    {j \in 1..(Len(t) - 2) :
        t[j] = QDelay /\ t[j + 1] = Colon /\ t[j + 2] \in StringTokens}

\* the except branch: the value after the first "delay": "...", else "0"
ManualDelay(t) ==
    LET delay_value == IF Mentions(t) /\ DelayMatches(t) # {}
                       THEN Unquote(t[Min(DelayMatches(t)) + 2])
                       ELSE "0"
    IN  DictVal(<< <<"delay", StrVal(delay_value)>> >>)

\* gpt_agent.py:256-280: the fragment if the pattern matches, else the
\* whole reply, parsed by json.loads; on JSONDecodeError the manual scan
ExtractDelay(t) ==
    LET json_str == JsonMatch(t)
    IN  IF json_str # << >>
        THEN IF IsValue(json_str) THEN Loads(json_str) ELSE ManualDelay(t)
        ELSE IF IsValue(t) THEN Loads(t) ELSE ManualDelay(t)

\* ------------------------------------------------------ analyzer results
\* The values gpt_response can take in handle_message: a dict without a
\* "delay" key (what the placeholder send_gpt returns), a dict whose
\* "delay" is a string, a dict whose "delay" is not a string, and a value
\* that is not a dict.
GptResponses ==
    { [isdict |-> TRUE, hasdelay |-> FALSE, isstr |-> TRUE, delay |-> ""],
      [isdict |-> TRUE, hasdelay |-> TRUE, isstr |-> TRUE, delay |-> "0"],
      [isdict |-> TRUE, hasdelay |-> TRUE, isstr |-> TRUE, delay |-> "2 hours"],
      [isdict |-> TRUE, hasdelay |-> TRUE, isstr |-> TRUE, delay |-> " "],
      [isdict |-> TRUE, hasdelay |-> TRUE, isstr |-> FALSE, delay |-> "5"],
      [isdict |-> FALSE, hasdelay |-> FALSE, isstr |-> FALSE, delay |-> ""] }

NoResponse == [isdict |-> FALSE, hasdelay |-> FALSE, isstr |-> FALSE, delay |-> "unset"]

\* str.strip() on the delay strings of GptResponses.
Strip(s) == IF s = " " THEN "" ELSE s

\* gpt_response.get("delay", "0") if isinstance(gpt_response, dict) else "0"
DelayValue(g) == IF g.isdict /\ g.hasdelay THEN g.delay ELSE "0"

\* a test of the delay that leaves out the comparison with "0"
DelayDetectedAlways(g) == Strip(DelayValue(g)) # ""

\* delay_value != "0" and delay_value.strip()
DelayDetected(g) == DelayValue(g) # "0" /\ Strip(DelayValue(g)) # ""

\* delay_value.strip() raises AttributeError when the delay is not a string.
DelayRaises(g) == g.isdict /\ g.hasdelay /\ ~g.isstr /\ DelayValue(g) # "0"

\* ------------------------------------------------------- queue and store
\* a queue of one message taken for empty (message_count <= 1)
IsEmptyUpToOne(q) == Len(q) <= 1

\* message_count == 0
IsEmpty(q) == Len(q) = 0

\* a publish that reports success and enqueues nothing
PublishDropped(q, payload) == q

\* basic_publish to the default exchange with routing_key=queue_name
BasicPublish(q, payload) == Append(q, payload)

\* a declare that deletes the queue and creates it anew
QueueDeclareAnew(q) == << >>

\* channel.queue_declare(queue=queue_name, durable=durable) on a queue
\* that may exist already, and its passive form: the messages stay
QueueDeclare(q) == q

\* a purge that removes only the entry published for the message of the
\* send_delayed_message task that calls it
QueuePurgeOwn(q) ==
    LET Other(e) == e.body # running[2]
    IN  IF running[1] = "dispatch" THEN SelectSeq(q, Other) ELSE << >>

\* queue_purge
QueuePurge(q) == << >>

\* an insert that stores the document twice
InsertTwice(l, document) == Append(Append(l, document), document)

\* an insert that replaces the newest document instead of adding one
InsertReplacing(l, document) ==
    IF l = << >> THEN <<document>> ELSE [l EXCEPT ![Len(l)] = document]

\* collection.insert_one(document)
InsertOne(l, document) == Append(l, document)

\* collection.delete_many({})
DeleteMany(l) == << >>

RECURSIVE Reverse(_)
Reverse(s) == IF s = << >> THEN << >> ELSE Append(Reverse(Tail(s)), Head(s))

\* a sort by ascending timestamp: sort("timestamp", 1)
BeforeAscending(a, b) == a.timestamp < b.timestamp

\* sort("timestamp", -1): a is placed before b when it is newer
Before(a, b) == a.timestamp > b.timestamp

\* the orders in which the sort can list the documents of l at the
\* positions S: it never places a document after one it comes before
RECURSIVE Orders(_, _)
Orders(l, S) ==
    IF S = {} THEN {<< >>}
    ELSE UNION {{<<x>> \o p : p \in Orders(l, S \ {x})} :
                  x \in {y \in S : \A z \in S : ~Before(l[z], l[y])}}

\* list(collection.find().sort("timestamp", -1)): every document, newest
\* first; the order of documents with equal timestamps is not specified,
\* so this is the set of the lists the call can return
GetAllMessages(l) ==
    {[i \in 1..Len(l) |-> l[p[i]]] : p \in Orders(l, 1..Len(l))}

RECURSIVE MaxTimestamp(_)
MaxTimestamp(l) ==
    IF l = << >> THEN 0
    ELSE LET m == MaxTimestamp(Tail(l))
         IN  IF Head(l).timestamp > m THEN Head(l).timestamp ELSE m

\* datetime.utcnow() at an insert, in the milliseconds the store keeps: not
\* before the newest document, and after every document of an earlier run
UtcNow(l) ==
    IF MaxTimestamp(l) = 0 THEN {1} ELSE {MaxTimestamp(l), MaxTimestamp(l) + 1}

\* collection.count_documents({})
CountDocuments(l) == Len(l)

\* the document insert_sms_message builds (message_sid and account_sid are
\* not passed by process_message_if_queue_empty and stay None)
Document(from_number, to_number, body, timestamp) ==
    [from |-> from_number, to |-> to_number, body |-> body, timestamp |-> timestamp]

\* the payload handle_message publishes
Payload(from_number, to_number, body) ==
    [from |-> from_number, to |-> to_number, body |-> body]

\* what an earlier run left behind in the queue and in the collection
OldEntry == [from |-> "A", to |-> TwilioNumber, body |-> 0]

OldDocument == [from |-> "A", to |-> TwilioNumber, body |-> 0, timestamp |-> 0]

\* ------------------------------------------------------------ scheduling
\* a loop that starts or resumes a coroutine while another one is running
CanRunAlways == TRUE

\* a sleep that holds the loop: nothing runs while a timer is pending
\* (time.sleep in place of await asyncio.sleep)
CanRunNoTimer == running = NoTask /\ timers = << >>

\* The event loop starts or resumes a coroutine only when none is running.
CanRun == running = NoTask

Handler(h) == <<"handler", h>>
Dispatch(d) == <<"dispatch", d>>

\* the task created with the two numbers in the wrong order
DispatchArgsSwapped(From_, To_, Body_) ==
    [to_number |-> To_, from_number |-> From_, original_message |-> Body_]

\* asyncio.create_task(send_delayed_message(From, To, Body))
DispatchArgs(From_, To_, Body_) ==
    [to_number |-> From_, from_number |-> To_, original_message |-> Body_]

\* The locals of a handle_message call (is_empty .. gpt_response are those
\* of its process_message_if_queue_empty call, depth is the message_count
\* is_queue_empty read), what it did (inserts and reads of the collection,
\* publish outcome, calls of client.messages.create) and the response it
\* returned (connected is what mongodb_service.connect() returned).
\* after_marker records whether the depth check came after a
\* published payload that no purge had removed.
FrameInit ==
    [pc |-> "idle", after_marker |-> FALSE, depth |-> Unset,
     is_empty |-> "unset", message_count |-> Unset,
     connected |-> "unset", success |-> "unset",
     status |-> "unset", messages_json |-> << >>, total_messages |-> Unset,
     gpt_response |-> NoResponse, published |-> "unset", response |-> "unset",
     inserts |-> 0, reads |-> 0, calls |-> << >>]

\* The arguments of a send_delayed_message task, what it did and where it is.
TaskInit ==
    [pc |-> "none", to_number |-> "", from_number |-> "", original_message |-> 0,
     purged |-> "unset", calls |-> << >>]

\* handle_message returns a response: its locals are gone, what it did stays.
Return(f, response) ==
    [FrameInit EXCEPT !.pc = "done", !.response = response,
                      !.status = f.status, !.is_empty = f.is_empty,
                      !.after_marker = f.after_marker,
                      !.connected = f.connected, !.success = f.success,
                      !.inserts = f.inserts, !.reads = f.reads,
                      !.published = f.published, !.calls = f.calls]

Init ==
    /\ phase = "boot"
    /\ queue \in {[i \in 1..n |-> OldEntry] : n \in 0..MaxPre}
    /\ log \in {[i \in 1..n |-> OldDocument] : n \in 0..MaxPre}
    /\ frame = [h \in Msgs |-> FrameInit]
    /\ task = [h \in Msgs |-> TaskInit]
    /\ timers = << >>
    /\ running = NoTask
    /\ markers = {}
    /\ response_content = << >>
    /\ delay_data = NoData
    /\ invoked = << >>
    /\ conversation_history = SystemOnly
    /\ answer = NoAnswer

\* The application does not touch what the other specifications use.
ApplicationOnly ==
    UNCHANGED <<response_content, delay_data, invoked, conversation_history, answer>>

\* ----------------------------------------------------------- startup_event
\* startup_event when rabbitmq_service.connect() returns rabbit_ok, the
\* purge inside purge_queue succeeds iff purge_ok, mongodb_service.connect()
\* returns mongo_ok and the delete inside clear_all_messages succeeds iff
\* clear_ok; the results of purge_queue and clear_all_messages are not read
StartupWith(rabbit_ok, purge_ok, mongo_ok, clear_ok) ==
    /\ phase = "boot"
    /\ phase' = "up"
    /\ queue' = IF rabbit_ok /\ purge_ok THEN QueuePurge(QueueDeclare(queue))
                ELSE IF rabbit_ok THEN QueueDeclare(queue) ELSE queue
    /\ log' = IF mongo_ok /\ clear_ok THEN DeleteMany(log) ELSE log
    /\ UNCHANGED <<frame, task, timers, running, markers>>
    /\ ApplicationOnly

Startup ==
    \E rabbit_ok \in BOOLEAN, purge_ok \in BOOLEAN,
       mongo_ok \in BOOLEAN, clear_ok \in BOOLEAN :
        StartupWith(rabbit_ok, purge_ok, mongo_ok, clear_ok)

\* ------------------------------------------------------------ handle_message
\* A request POST /message is received; its coroutine waits for the loop.
Arrive(h) ==
    /\ phase = "up"
    /\ frame[h].pc = "idle"
    /\ \A g \in Msgs : g < h => frame[g].pc # "idle"
    /\ frame' = [frame EXCEPT ![h].pc = "pending"]
    /\ UNCHANGED <<phase, queue, log, task, timers, running, markers>>
    /\ ApplicationOnly

\* The loop starts the coroutines in the order of their requests; a started
\* handler runs up to its call of process_message_if_queue_empty.
Begin(h) ==
    /\ frame[h].pc = "pending"
    /\ \A g \in Msgs : g < h => frame[g].pc # "pending"
    /\ CanRun
    /\ running' = Handler(h)
    /\ frame' = [frame EXCEPT ![h].pc = "check"]
    /\ UNCHANGED <<phase, queue, log, task, timers, markers>>
    /\ ApplicationOnly

\* an error answered with the empty TwiML response
ErrorReturnSilent(f) == Return([f EXCEPT !.status = "error"], "empty")

\* process_message_if_queue_empty returns status "error"; the handler's
\* else branch (main.py:209-211) and its final return (main.py:217-223).
ErrorReturn(f) ==
    Return([f EXCEPT !.status = "error"], "Message received but processing failed")

\* the branch without the test for None: None is taken for not empty
AfterCheckNoNone(is_empty) ==
    IF is_empty = "True" THEN "connect" ELSE "count_queue"

\* The pc after is_queue_empty (message_processor.py:50-60).
AfterCheck(is_empty) ==
    IF is_empty = "None" THEN "error"
    ELSE IF is_empty = "False" THEN "count_queue" ELSE "connect"

\* Step 1: rabbitmq_service.is_queue_empty(queue_name)
CheckQueue(h) ==
    /\ running = Handler(h)
    /\ frame[h].pc = "check"
    /\ \E ok \in BOOLEAN :
         LET is_empty == IF ~ok THEN "None"
                         ELSE IF IsEmpty(QueueDeclare(queue)) THEN "True" ELSE "False"
             f == [frame[h] EXCEPT !.is_empty = is_empty,
                                   !.depth = IF ok THEN Len(QueueDeclare(queue)) ELSE Unset,
                                   !.after_marker = markers # {}]
         IN  IF AfterCheck(is_empty) = "error"
             THEN /\ frame' = [frame EXCEPT ![h] = ErrorReturn(f)]
                  /\ running' = NoTask
             ELSE /\ frame' = [frame EXCEPT ![h] = [f EXCEPT !.pc = AfterCheck(is_empty)]]
                  /\ UNCHANGED running
    /\ queue' = QueueDeclare(queue)
    /\ UNCHANGED <<phase, log, task, timers, markers>>
    /\ ApplicationOnly

\* rabbitmq_service.get_queue_message_count(queue_name), then return skipped
CountQueue(h) ==
    /\ running = Handler(h)
    /\ frame[h].pc = "count_queue"
    /\ \E ok \in BOOLEAN :
         frame' = [frame EXCEPT ![h].message_count =
                                    IF ok THEN Len(QueueDeclare(queue)) ELSE NoneVal,
                                ![h].status = "skipped",
                                ![h].pc = "fallback"]
    /\ queue' = QueueDeclare(queue)
    /\ UNCHANGED <<phase, log, task, timers, running, markers>>
    /\ ApplicationOnly

\* if not mongodb_service.connect(): return error
AfterConnect(connected) == IF connected = "True" THEN "insert" ELSE "error"

\* an insert whose result is not tested
AfterInsertUnchecked(success) == "read"

\* if not success: return error
AfterInsert(success) == IF success = "True" THEN "read" ELSE "error"

\* Python's str(bool)
Bool(b) == IF b THEN "True" ELSE "False"

\* Step 2: mongodb_service.connect()
ConnectStore(h) ==
    /\ running = Handler(h)
    /\ frame[h].pc = "connect"
    /\ \E ok \in BOOLEAN :
         LET f == [frame[h] EXCEPT !.connected = Bool(ok)]
         IN  IF AfterConnect(Bool(ok)) = "error"
             THEN /\ frame' = [frame EXCEPT ![h] = ErrorReturn(f)]
                  /\ running' = NoTask
             ELSE /\ frame' = [frame EXCEPT ![h] = [f EXCEPT !.pc = AfterConnect(Bool(ok))]]
                  /\ UNCHANGED running
    /\ UNCHANGED <<phase, queue, log, task, timers, markers>>
    /\ ApplicationOnly

\* Step 3: mongodb_service.insert_sms_message(from_number, to_number, body)
InsertMessage(h) ==
    /\ running = Handler(h)
    /\ frame[h].pc = "insert"
    /\ \E ok \in BOOLEAN, timestamp \in UtcNow(log) :
         LET f == [frame[h] EXCEPT !.success = Bool(ok),
                                   !.inserts = IF ok THEN @ + 1 ELSE @]
         IN  /\ log' = IF ok THEN InsertOne(log, Document(From(h), TwilioNumber, h, timestamp))
                             ELSE log
             /\ IF AfterInsert(Bool(ok)) = "error"
                THEN /\ frame' = [frame EXCEPT ![h] = ErrorReturn(f)]
                     /\ running' = NoTask
                ELSE /\ frame' = [frame EXCEPT ![h] = [f EXCEPT !.pc = AfterInsert(Bool(ok))]]
                     /\ UNCHANGED running
    /\ UNCHANGED <<phase, queue, task, timers, markers>>
    /\ ApplicationOnly

\* Step 4a: mongodb_service.get_messages_as_json(): "[]" on an error
ReadLog(h) ==
    /\ running = Handler(h)
    /\ frame[h].pc = "read"
    /\ \E messages_json \in GetAllMessages(log) \cup {<< >>} :
         frame' = [frame EXCEPT ![h].messages_json = messages_json,
                                ![h].reads = frame[h].reads + 1,
                                ![h].pc = "count_log"]
    /\ UNCHANGED <<phase, queue, log, task, timers, running, markers>>
    /\ ApplicationOnly

\* Step 4b: mongodb_service.get_message_count(): 0 on an error
CountLog(h) ==
    /\ running = Handler(h)
    /\ frame[h].pc = "count_log"
    /\ \E ok \in BOOLEAN :
         frame' = [frame EXCEPT ![h].total_messages = IF ok THEN CountDocuments(log) ELSE 0,
                                ![h].reads = frame[h].reads + 1,
                                ![h].pc = "analyze"]
    /\ UNCHANGED <<phase, queue, log, task, timers, running, markers>>
    /\ ApplicationOnly

\* Step 5: send_gpt(messages_json), then return the success result: the
\* result holds total_messages and gpt_response, messages_json is gone
Analyze(h) ==
    /\ running = Handler(h)
    /\ frame[h].pc = "analyze"
    /\ \E g \in GptResponses :
         frame' = [frame EXCEPT ![h].gpt_response = g,
                                ![h].messages_json = << >>,
                                ![h].status = "success",
                                ![h].pc = "decide"]
    /\ UNCHANGED <<phase, queue, log, task, timers, running, markers>>
    /\ ApplicationOnly

\* main.py:139-149 and 187-189: read the delay and branch on it
Decide(h) ==
    /\ running = Handler(h)
    /\ frame[h].pc = "decide"
    /\ LET g == frame[h].gpt_response
       IN  IF DelayRaises(g)
           THEN /\ frame' = [frame EXCEPT ![h] =
                       Return(frame[h], "Message processed but failed to handle response")]
                /\ running' = NoTask
           ELSE /\ frame' = [frame EXCEPT ![h].pc =
                                 IF DelayDetected(g) THEN "publish" ELSE "notify"]
                /\ UNCHANGED running
    /\ UNCHANGED <<phase, queue, log, task, timers, markers>>
    /\ ApplicationOnly

\* main.py:152-163: rabbitmq_service.publish_message, its result not used
PublishMarker(h) ==
    /\ running = Handler(h)
    /\ frame[h].pc = "publish"
    /\ \E ok \in BOOLEAN :
         IF ok
         THEN /\ queue' = BasicPublish(QueueDeclare(queue),
                                       Payload(From(h), TwilioNumber, h))
              /\ markers' = markers \cup {h}
              /\ frame' = [frame EXCEPT ![h].published = "ok", ![h].pc = "arm"]
         ELSE /\ frame' = [frame EXCEPT ![h].published = "failed", ![h].pc = "arm"]
              /\ UNCHANGED <<queue, markers>>
    /\ UNCHANGED <<phase, log, task, timers, running>>
    /\ ApplicationOnly

\* main.py:165-170: create the task and return the empty TwiML response.
\* The new task runs to its await of the sleep when the handler has returned.
Arm(h) ==
    /\ running = Handler(h)
    /\ frame[h].pc = "arm"
    /\ task' = [task EXCEPT ![h] =
                  [pc |-> "sleeping", purged |-> "unset", calls |-> << >>]
                  @@ DispatchArgs(From(h), TwilioNumber, h)]
    /\ timers' = Append(timers, h)
    /\ frame' = [frame EXCEPT ![h] = Return(frame[h], "empty")]
    /\ running' = NoTask
    /\ UNCHANGED <<phase, queue, log, markers>>
    /\ ApplicationOnly

\* a call of client.messages.create(body=..., from_=..., to=...)
Call(to, from_, body) == [to |-> to, from_ |-> from_, body |-> body]

\* get_grok_response(user_message): Grok's reply to that message (or the
\* apology it returns when the API call fails); it never raises
GetGrokResponse(user_message) == <<"grok", user_message>>

\* the Body of inbound message h, sent on as it is
RawBody(h) == <<"raw", h>>

\* the delayed copy: sender, original message and Grok's reply
CopyBody(original_message) == <<"copy", original_message>>

\* the fallback call with the two numbers in the wrong order
FallbackCallSwapped(h) == Call(TwilioNumber, From(h), GetGrokResponse(h))

\* client.messages.create(body=grok_response, from_=To, to=From)
FallbackCall(h) == Call(From(h), TwilioNumber, GetGrokResponse(h))

\* main.py:171-185: no delay, copy the message to the WhatsApp number;
\* a failure of the call is logged
NotifyWhatsApp(h) ==
    /\ running = Handler(h)
    /\ frame[h].pc = "notify"
    /\ LET f == [frame[h] EXCEPT !.calls =
                    Append(@, Call(WhatsAppNumber, TwilioNumber, RawBody(h)))]
       IN  frame' = [frame EXCEPT ![h] = Return(f, "empty")]
    /\ running' = NoTask
    /\ UNCHANGED <<phase, queue, log, task, timers, markers>>
    /\ ApplicationOnly

\* main.py:191-208: skipped, answer the sender with Grok's reply at once
Fallback(h) ==
    /\ running = Handler(h)
    /\ frame[h].pc = "fallback"
    /\ \E ok \in BOOLEAN :
         LET f == [frame[h] EXCEPT !.calls =
                      Append(@, FallbackCall(h))]
         IN  frame' = [frame EXCEPT ![h] =
                          Return(f, IF ok THEN "empty" ELSE "Message received")]
    /\ running' = NoTask
    /\ UNCHANGED <<phase, queue, log, task, timers, markers>>
    /\ ApplicationOnly

\* ------------------------------------------------------ send_delayed_message
\* await asyncio.sleep(45) is over and the loop resumes the task.  All
\* sleeps last 45 seconds, so they end in the order they were started.
Wake(d) ==
    /\ CanRun
    /\ timers # << >>
    /\ Head(timers) = d
    /\ task[d].pc = "sleeping"
    /\ timers' = Tail(timers)
    /\ task' = [task EXCEPT ![d].pc = "send"]
    /\ running' = Dispatch(d)
    /\ UNCHANGED <<phase, queue, log, frame, markers>>
    /\ ApplicationOnly

\* a send whose exception leaves the task (no outer except)
AfterSendUncaught(sent) == IF sent THEN "whatsapp" ELSE "raised"

\* the pc after client.messages.create at main.py:83: an exception is
\* caught and logged by the outer except (main.py:109-110), the task ends
AfterSend(sent) == IF sent THEN "whatsapp" ELSE "done"

\* main.py:78-89 and 109-110: Grok's reply is sent to the original sender;
\* when the send raises, the outer except ends the task.
SendDelayed(d) ==
    /\ running = Dispatch(d)
    /\ task[d].pc = "send"
    /\ \E ok \in BOOLEAN :
         LET calls == Append(task[d].calls,
                             Call(task[d].to_number, task[d].from_number,
                                  GetGrokResponse(task[d].original_message)))
         IN  /\ task' = [task EXCEPT ![d].pc = AfterSend(ok), ![d].calls = calls]
             /\ running' = IF AfterSend(ok) = "whatsapp" THEN running ELSE NoTask
    /\ UNCHANGED <<phase, queue, log, frame, timers, markers>>
    /\ ApplicationOnly

\* main.py:91-100: the copy to the WhatsApp number; a failure is logged
CopyDelayed(d) ==
    /\ running = Dispatch(d)
    /\ task[d].pc = "whatsapp"
    /\ task' = [task EXCEPT ![d].pc = "purge",
                   ![d].calls = Append(@, Call(WhatsAppNumber, task[d].from_number,
                                            CopyBody(task[d].original_message)))]
    /\ UNCHANGED <<phase, queue, log, frame, timers, running, markers>>
    /\ ApplicationOnly

\* main.py:102-107: rabbitmq_service.purge_queue(SMS_QUEUE_NAME)
PurgeDelayed(d) ==
    /\ running = Dispatch(d)
    /\ task[d].pc = "purge"
    /\ \E ok \in BOOLEAN :
         IF ok
         THEN /\ queue' = QueuePurge(QueueDeclare(queue))
              /\ markers' = {}
              /\ task' = [task EXCEPT ![d].pc = "done", ![d].purged = "ok"]
         ELSE /\ task' = [task EXCEPT ![d].pc = "done", ![d].purged = "failed"]
              /\ UNCHANGED <<queue, markers>>
    /\ running' = NoTask
    /\ UNCHANGED <<phase, log, frame, timers>>
    /\ ApplicationOnly

Next ==
    \/ Startup
    \/ \E h \in Msgs :
         \/ Arrive(h)
         \/ Begin(h)
         \/ CheckQueue(h)
         \/ CountQueue(h)
         \/ ConnectStore(h)
         \/ InsertMessage(h)
         \/ ReadLog(h)
         \/ CountLog(h)
         \/ Analyze(h)
         \/ Decide(h)
         \/ PublishMarker(h)
         \/ Arm(h)
         \/ NotifyWhatsApp(h)
         \/ Fallback(h)
         \/ Wake(h)
         \/ SendDelayed(h)
         \/ CopyDelayed(h)
         \/ PurgeDelayed(h)

Spec == Init /\ [][Next]_vars

\* ------------------------------- analyze_time_sensitive_conversation alone
\* The model has answered: any reply of at most MaxTextLen tokens.
AnalyzerInit ==
    /\ phase = "boot"
    /\ queue = << >>
    /\ log = << >>
    /\ frame = [h \in Msgs |-> FrameInit]
    /\ task = [h \in Msgs |-> TaskInit]
    /\ timers = << >>
    /\ running = NoTask
    /\ markers = {}
    /\ response_content \in Texts
    /\ delay_data = NoData
    /\ invoked = << >>
    /\ conversation_history = SystemOnly
    /\ answer = NoAnswer

\* gpt_agent.py:253-280: the function returns what it extracts
Extract ==
    /\ delay_data = NoData
    /\ delay_data' = ExtractDelay(response_content)
    /\ UNCHANGED <<phase, queue, log, frame, task, timers, running, markers,
                   response_content, invoked, conversation_history, answer>>

AnalyzerNext == Extract

AnalyzerSpec == AnalyzerInit /\ [][AnalyzerNext]_vars

\* ------------------------- rabbitmq_service and mongodb_service alone
\* The methods of the two services called one after another in any order
\* on the queue and the collection an earlier run left; a call raises
\* inside the method when the broker or the store cannot be reached.
ServiceInit ==
    /\ phase = "boot"
    /\ queue \in {[i \in 1..n |-> OldEntry] : n \in 0..MaxPre}
    /\ log \in {[i \in 1..n |-> OldDocument] : n \in 0..MaxPre}
    /\ frame = [h \in Msgs |-> FrameInit]
    /\ task = [h \in Msgs |-> TaskInit]
    /\ timers = << >>
    /\ running = NoTask
    /\ markers = {}
    /\ response_content = << >>
    /\ delay_data = NoData
    /\ invoked = << >>
    /\ conversation_history = SystemOnly
    /\ answer = NoAnswer

\* a call of method op: whether it raised inside, what it returned, and
\* the number it returned or logged (Unset if none)
Invocation(op, raised, ret, count) ==
    [op |-> op, raised |-> raised, ret |-> ret, count |-> count]

\* the last two calls once c has been made
Invoke(c) == IF invoked = << >> THEN <<c>> ELSE <<invoked[Len(invoked)], c>>

\* the last call
Last == invoked[Len(invoked)]

\* a clear that reports a failure when it found nothing to delete
ClearAllResultNonempty(deleted_count) ==
    IF deleted_count > 0 THEN "True" ELSE "False"

\* mongodb_service.py:137-139: deleted_count is logged, True is returned
ClearAllResult(deleted_count) == "True"

ServiceUnchanged ==
    UNCHANGED <<phase, frame, task, timers, running, markers,
                response_content, delay_data, conversation_history, answer>>

\* MongoDBService.clear_all_messages
ClearAllMessages ==
    /\ \E raised \in BOOLEAN :
         IF raised
         THEN /\ invoked' = Invoke(Invocation("clear_all_messages", TRUE, "False", Unset))
              /\ UNCHANGED log
         ELSE /\ invoked' = Invoke(Invocation("clear_all_messages", FALSE,
                                              ClearAllResult(Len(log)), Len(log)))
              /\ log' = DeleteMany(log)
    /\ UNCHANGED queue
    /\ ServiceUnchanged

\* MongoDBService.insert_sms_message
InsertSmsMessage ==
    /\ Len(log) < MaxMsgs
    /\ \E raised \in BOOLEAN, timestamp \in UtcNow(log) :
         IF raised
         THEN /\ invoked' = Invoke(Invocation("insert_sms_message", TRUE, "False", Unset))
              /\ UNCHANGED log
         ELSE /\ invoked' = Invoke(Invocation("insert_sms_message", FALSE, "True", Unset))
              /\ log' = InsertOne(log, Document("A", TwilioNumber, Len(log) + 1, timestamp))
    /\ UNCHANGED queue
    /\ ServiceUnchanged

\* MongoDBService.get_message_count
GetMessageCount ==
    /\ \E raised \in BOOLEAN :
         invoked' = Invoke(Invocation("get_message_count", raised, "int",
                                      IF raised THEN 0 ELSE CountDocuments(log)))
    /\ UNCHANGED <<queue, log>>
    /\ ServiceUnchanged

\* RabbitMQService.declare_queue
DeclareQueue ==
    /\ \E raised \in BOOLEAN :
         IF raised
         THEN /\ invoked' = Invoke(Invocation("declare_queue", TRUE, "False", Unset))
              /\ UNCHANGED queue
         ELSE /\ invoked' = Invoke(Invocation("declare_queue", FALSE, "True", Unset))
              /\ queue' = QueueDeclare(queue)
    /\ UNCHANGED log
    /\ ServiceUnchanged

\* RabbitMQService.is_queue_empty
IsQueueEmpty ==
    /\ \E raised \in BOOLEAN :
         IF raised
         THEN /\ invoked' = Invoke(Invocation("is_queue_empty", TRUE, "None", Unset))
              /\ UNCHANGED queue
         ELSE /\ invoked' = Invoke(Invocation("is_queue_empty", FALSE,
                     IF IsEmpty(QueueDeclare(queue)) THEN "True" ELSE "False",
                     Len(QueueDeclare(queue))))
              /\ queue' = QueueDeclare(queue)
    /\ UNCHANGED log
    /\ ServiceUnchanged

\* RabbitMQService.get_queue_message_count
GetQueueMessageCount ==
    /\ \E raised \in BOOLEAN :
         IF raised
         THEN /\ invoked' = Invoke(Invocation("get_queue_message_count", TRUE, "None", Unset))
              /\ UNCHANGED queue
         ELSE /\ invoked' = Invoke(Invocation("get_queue_message_count", FALSE, "int",
                                              Len(QueueDeclare(queue))))
              /\ queue' = QueueDeclare(queue)
    /\ UNCHANGED log
    /\ ServiceUnchanged

\* RabbitMQService.publish_message
PublishMessage ==
    /\ Len(queue) < MaxMsgs
    /\ \E raised \in BOOLEAN :
         IF raised
         THEN /\ invoked' = Invoke(Invocation("publish_message", TRUE, "False", Unset))
              /\ UNCHANGED queue
         ELSE /\ invoked' = Invoke(Invocation("publish_message", FALSE, "True", Unset))
              /\ queue' = BasicPublish(QueueDeclare(queue),
                                       Payload("A", TwilioNumber, Len(queue) + 1))
    /\ UNCHANGED log
    /\ ServiceUnchanged

\* RabbitMQService.purge_queue
PurgeQueue ==
    /\ \E raised \in BOOLEAN :
         IF raised
         THEN /\ invoked' = Invoke(Invocation("purge_queue", TRUE, "False", Unset))
              /\ UNCHANGED queue
         ELSE /\ invoked' = Invoke(Invocation("purge_queue", FALSE, "True", Unset))
              /\ queue' = QueuePurge(QueueDeclare(queue))
    /\ UNCHANGED log
    /\ ServiceUnchanged

ServiceNext ==
    \/ ClearAllMessages
    \/ InsertSmsMessage
    \/ GetMessageCount
    \/ DeclareQueue
    \/ IsQueueEmpty
    \/ GetQueueMessageCount
    \/ PublishMessage
    \/ PurgeQueue

ServiceSpec == ServiceInit /\ [][ServiceNext]_vars

\* ------------------------------------------------ gpt_agent: ChatAgent
\* The ChatAgent after ChatAgent(): __init__ ends with reset_conversation().
ChatAgentInit ==
    /\ phase = "boot"
    /\ queue = << >>
    /\ log = << >>
    /\ frame = [h \in Msgs |-> FrameInit]
    /\ task = [h \in Msgs |-> TaskInit]
    /\ timers = << >>
    /\ running = NoTask
    /\ markers = {}
    /\ response_content = << >>
    /\ delay_data = NoData
    /\ invoked = << >>
    /\ conversation_history = SystemOnly
    /\ answer = NoAnswer

ChatAgentOnly ==
    UNCHANGED <<phase, queue, log, frame, task, timers, running, markers,
                response_content, delay_data, invoked>>

\* ChatAgent.reset_conversation
ResetConversation ==
    /\ conversation_history' = SystemOnly
    /\ answer' = Answer("reset_conversation", FALSE, None)
    /\ ChatAgentOnly

\* ChatAgent.add_message(role, content)
AddMessage(role, content) ==
    /\ Len(conversation_history) < MaxHistory
    /\ conversation_history' = AddMessageTo(conversation_history, role, content)
    /\ answer' = Answer("add_message", FALSE, None)
    /\ ChatAgentOnly

\* ChatAgent.get_response(user_message): the user message is added, then
\* the API is called with the history; the reply is added and returned, or
\* the call raises and None is returned
GetResponse(user_message) ==
    /\ Len(conversation_history) < MaxHistory
    /\ LET asked == AddMessageTo(conversation_history, "user", user_message)
       IN  \E raised \in BOOLEAN :
             IF raised
             THEN /\ conversation_history' = asked
                  /\ answer' = Answer("get_response", TRUE, None)
             ELSE \E bot_response \in Completions :
                  /\ Len(asked) < MaxHistory
                  /\ conversation_history' =
                        AddMessageTo(asked, "assistant", bot_response)
                  /\ answer' = Answer("get_response", FALSE, bot_response)
    /\ ChatAgentOnly

\* ChatAgent.quick_question(question): the reply, or "Error: ..." when the
\* call raises
QuickQuestion(question) ==
    /\ \E raised \in BOOLEAN :
         IF raised
         THEN /\ conversation_history' =
                    QuickHistory(conversation_history, question, None)
              /\ answer' = Answer("quick_question", TRUE, Str("Error: e"))
         ELSE \E content \in Completions :
              /\ conversation_history' =
                    QuickHistory(conversation_history, question, content)
              /\ answer' = Answer("quick_question", FALSE, content)
    /\ ChatAgentOnly

ChatAgentNext ==
    \/ ResetConversation
    \/ \E role \in Roles, content \in UserMessages \cup Completions :
         AddMessage(role, content)
    \/ \E user_message \in UserMessages : GetResponse(user_message)
    \/ \E question \in UserMessages : QuickQuestion(question)

ChatAgentSpec == ChatAgentInit /\ [][ChatAgentNext]_vars

\* ------------------------------------------------------------- properties
Returned(h) == frame[h].pc = "done"

\* the admission outcome of h is known: process_message_if_queue_empty
\* has built its result
Admitted(h) == frame[h].status # "unset"

\* the documents of an earlier run that no clear removed
Cleared == \A i \in 1..Len(log) : log[i] # OldDocument

Claimed == {h \in Msgs : frame[h].status = "success"}

\* the insert, read-all and analyze sequence of process_message_if_queue_empty
InPass(h) == frame[h].pc \in {"insert", "read", "count_log", "analyze"}

\* the calls of task d toward the sender of its message
CallsToSender(d) ==
    {i \in 1..Len(task[d].calls) : task[d].calls[i].to = From(d)}

\* C1 (as stated): an admission attempt whose depth check comes after the
\* occupancy marker of a Claimed message was published, and before any
\* purge, returns Skipped.
C1_SkippedAfterMarker ==
    \A B \in Msgs :
        (frame[B].after_marker /\ Admitted(B)) => frame[B].status = "skipped"

\* C1 (amended): such an attempt is never Claimed; it returns Skipped when
\* its depth check succeeds and Failed only when the depth check itself fails.
C1_NeverClaimedAfterMarker ==
    \A B \in Msgs :
        (frame[B].after_marker /\ Admitted(B)) =>
            /\ frame[B].status \in {"skipped", "error"}
            /\ frame[B].status = "error" <=> frame[B].is_empty = "None"

C1_Witness ==
    \E A \in Msgs, B \in Msgs :
        /\ A # B
        /\ frame[A].status = "success" /\ frame[A].published = "ok"
        /\ frame[B].after_marker /\ frame[B].status = "skipped"

\* C2: when a send_delayed_message run completes, whether its send to the
\* original sender succeeded or raised, the queue depth is 0.
C2_DepthZeroAfterDispatch ==
    [][\A d \in Msgs :
          (task[d].pc # "done" /\ task'[d].pc = "done") => Len(queue') = 0]_vars

\* C3: at most one processing pass (insert, read-all, analyze) is in
\* progress on the collection at any time, however many messages arrived.
C3_OnePassAtATime == Cardinality({h \in Msgs : InPass(h)}) <= 1

C3_Witness ==
    \E h \in Msgs, g \in Msgs, k \in Msgs :
        /\ InPass(h) /\ frame[h].inserts = 1
        /\ g # k /\ frame[g].pc = "pending" /\ frame[k].pc = "pending"

\* C4: since the last clear, when no admission is under way, the number of
\* documents in the collection equals the number of Claimed outcomes; a
\* Claimed outcome did one insert, a Skipped or Failed outcome did none.
C4_LogCountEqualsClaimed ==
    /\ (Cleared /\ running = NoTask) => Len(log) = Cardinality(Claimed)
    /\ \A h \in Msgs :
          /\ frame[h].status = "success" => frame[h].inserts = 1
          /\ frame[h].status \in {"skipped", "error"} => frame[h].inserts = 0

C4_Witness ==
    /\ Cleared /\ running = NoTask
    /\ Cardinality(Claimed) = 2 /\ Len(log) = 2
    /\ \E h \in Msgs : frame[h].status = "skipped"

\* C5: an admission that observes a nonzero depth returns Skipped and does
\* not insert; an admission returns Claimed only if it observed depth 0.
C5_SkippedIffDepthNonzero ==
    \A h \in Msgs :
        /\ frame[h].depth > 0 =>
              /\ frame[h].pc \in {"count_queue", "fallback"}
              /\ frame[h].inserts = 0
              /\ Admitted(h) => frame[h].status = "skipped"
        /\ (Admitted(h) /\ frame[h].is_empty = "False") =>
              (frame[h].status = "skipped" /\ frame[h].inserts = 0)
        /\ (frame[h].status = "success" /\ ~Returned(h)) => frame[h].depth = 0
        /\ frame[h].status = "success" => frame[h].is_empty = "True"

C5_Witness ==
    \E h \in Msgs :
        /\ frame[h].depth > 0 /\ frame[h].status = "skipped"
        /\ Len(log) > 0

\* C6: a deferred dispatch is armed only when the publish of the occupancy
\* marker has completed successfully.
C6_PublishedBeforeArmed ==
    \A d \in Msgs : task[d].pc # "none" => frame[d].published = "ok"

\* C7: while a deferred dispatch is pending (armed, its timer not fired),
\* no admission attempt finds the queue empty, so no message is Claimed.
C7_NoClaimWhilePending ==
    [][\A B \in Msgs :
          ( /\ frame[B].pc = "check" /\ frame'[B].pc # "check"
            /\ \E d \in Msgs : task[d].pc = "sleeping" )
          => frame'[B].is_empty # "True"]_vars

\* C8: a deferred dispatch that ran to completion has invoked the Responder
\* and then executed the purge of the queue.
C8_DispatchInvokesAndPurges ==
    \A d \in Msgs :
        task[d].pc = "done" =>
            (CallsToSender(d) # {} /\ task[d].purged # "unset")

\* C9: a deferred dispatch calls the Responder toward the original sender
\* exactly once, with Grok's reply from the Twilio number: not before its
\* sleep is over, and before it purges the queue.
C9_OneSendAfterTimerBeforePurge ==
    \A d \in Msgs :
        /\ task[d].pc \in {"none", "sleeping", "send"} => task[d].calls = << >>
        /\ task[d].pc \in {"whatsapp", "purge", "done"} =>
              /\ Cardinality(CallsToSender(d)) = 1
              /\ task[d].calls[1] =
                    [to |-> From(d), from_ |-> TwilioNumber, body |-> <<"grok", d>>]
        /\ task[d].purged # "unset" => Cardinality(CallsToSender(d)) = 1

C9_Witness ==
    \E d \in Msgs :
        /\ task[d].pc = "done" /\ task[d].purged = "ok"
        /\ Cardinality(CallsToSender(d)) = 1

\* C10: when the depth check fails (is_queue_empty returns None) the
\* admission returns Failed and neither inserts into nor reads the collection.
C10_CheckFailureIsFailed ==
    \A h \in Msgs :
        frame[h].is_empty = "None" =>
            /\ frame[h].status = "error"
            /\ frame[h].inserts = 0
            /\ frame[h].reads = 0

C10_Witness ==
    \E h \in Msgs :
        /\ frame[h].is_empty = "None" /\ frame[h].status = "error"
        /\ Len(log) > 0

\* the documents process_message_if_queue_empty stored for message h
DocumentsOf(h) == {i \in 1..Len(log) : log[i].body = h}

\* C11: when the store connection or the insert fails during an admission,
\* the admission returns Failed and the collection holds no document of
\* that message.
C11_StoreFailureIsFailed ==
    \A h \in Msgs :
        (frame[h].connected = "False" \/ frame[h].success = "False") =>
            /\ frame[h].status = "error"
            /\ frame[h].inserts = 0
            /\ DocumentsOf(h) = {}

C11_Witness ==
    \E h \in Msgs, g \in Msgs :
        /\ frame[h].success = "False" /\ frame[h].status = "error"
        /\ frame[g].connected = "False" /\ frame[g].status = "error"
        /\ Len(log) > 0 /\ Cleared

\* the steps of process_message_if_queue_empty
AdmitPcs == {"check", "count_queue", "connect", "insert", "read", "count_log", "analyze"}

\* C12: process_message_if_queue_empty never changes the queue: no step of
\* it, whatever its outcome, adds or removes a message, so the depth when
\* it returns is the depth when it was called.
C12_AdmitLeavesQueue ==
    /\ [][\A h \in Msgs :
            (running = Handler(h) /\ frame[h].pc \in AdmitPcs /\ frame'[h] # frame[h])
            => queue' = queue]_vars
    /\ [](\A h \in Msgs :
            (frame[h].depth # Unset /\ frame[h].pc \in {"fallback", "decide"})
            => Len(queue) = frame[h].depth)

C12_Witness ==
    \E h \in Msgs, g \in Msgs, k \in Msgs :
        /\ frame[h].pc = "fallback" /\ frame[h].status = "skipped"
        /\ frame[h].depth = 1 /\ Len(queue) = 1 /\ markers # {}
        /\ frame[g].status = "success"
        /\ frame[k].status = "error"

\* the calls of client.messages.create handler h made toward the sender
ResponderCalls(h) ==
    {i \in 1..Len(frame[h].calls) : frame[h].calls[i].to = From(h)}

\* the response carries a <Message>, which Twilio sends to the sender
TwimlMessage(h) == frame[h].response \notin {"unset", "empty"}

\* the sender of h got a reply: a <Message> in the response, or a call of
\* client.messages.create toward the sender that did not raise
Replied(h) ==
    \/ TwimlMessage(h)
    \/ (frame[h].response = "empty" /\ ResponderCalls(h) # {})

AdmitReturned(h) ==
    frame[h].pc \in {"fallback", "decide", "publish", "arm", "notify", "done"}

\* C15: no operation ends with an exception: every return of
\* process_message_if_queue_empty carries a status, also after a failure of
\* the queue or the store, and a send_delayed_message task whose send or
\* purge failed has finished normally.
C15_NothingRaises ==
    /\ \A h \in Msgs :
          /\ frame[h].pc # "raised"
          /\ AdmitReturned(h) => frame[h].status \in {"success", "skipped", "error"}
          /\ (frame[h].is_empty = "None" \/ frame[h].connected = "False"
                \/ frame[h].success = "False") => Returned(h)
    /\ \A d \in Msgs :
          /\ task[d].pc # "raised"
          /\ task[d].purged = "failed" => task[d].pc = "done"
          /\ (task[d].calls # << >> /\ running # Dispatch(d)) => task[d].pc = "done"

C15_Witness ==
    \E d \in Msgs, e \in Msgs, h \in Msgs :
        /\ task[d].pc = "done" /\ task[d].purged = "unset" /\ Len(task[d].calls) = 1
        /\ task[e].pc = "done" /\ task[e].purged = "failed"
        /\ frame[h].status = "error" /\ Returned(h)

\* handler h holds the transcript it read and has not analyzed it yet
AfterRead(h) == frame[h].pc \in {"count_log", "analyze"}

\* this step gives the transcript of h to send_gpt and returns the
\* success result
Analyzed(h) == frame[h].pc = "analyze" /\ frame'[h].status = "success"

\* the read of h returned documents: after its own insert the collection
\* is not empty, so "[]" is what a failed read returned
ReadSucceeded(h) == AfterRead(h) /\ frame[h].messages_json # << >>

\* s lists exactly the documents of l
IsPermutation(s, l) ==
    /\ Len(s) = Len(l)
    /\ \A i \in 1..Len(l) :
          Cardinality({j \in 1..Len(s) : s[j] = l[i]})
              = Cardinality({j \in 1..Len(l) : l[j] = l[i]})

\* the timestamps of l grow strictly in insertion order
StrictlyIncreasing(l) ==
    \A i, j \in 1..Len(l) : i < j => l[i].timestamp < l[j].timestamp

\* C16: a Claimed result is never produced from a failed read of the
\* collection: when the read after the insert fails, the result is Failed.
C16_FailedReadIsFailed ==
    [][\A h \in Msgs : Analyzed(h) => ReadSucceeded(h)]_vars

\* C17: on a Claimed outcome the transcript given to the Analyzer is the
\* whole collection, with the document just inserted for this message.
C17_TranscriptIsWholeLog ==
    [][\A h \in Msgs :
         Analyzed(h) =>
            /\ IsPermutation(frame[h].messages_json, log)
            /\ \E i \in 1..Len(frame[h].messages_json) :
                  frame[h].messages_json[i].body = h]_vars

\* C18 (as stated): a read returns the documents of the collection in
\* insertion order, oldest first.
C18_ReadAllInInsertionOrder ==
    \A h \in Msgs : ReadSucceeded(h) => frame[h].messages_json = log

\* C18 (amended): a read that succeeds returns exactly the documents of the
\* collection sorted by timestamp, newest first: the reverse of the
\* insertion order when the timestamps grow strictly.
C18_ReadAllNewestFirst ==
    \A h \in Msgs :
        ReadSucceeded(h) =>
            LET s == frame[h].messages_json
            IN  /\ IsPermutation(s, log)
                /\ \A i, j \in 1..Len(s) : i < j => s[i].timestamp >= s[j].timestamp
                /\ StrictlyIncreasing(log) => s = Reverse(log)

C18_Witness ==
    \E h \in Msgs :
        /\ ReadSucceeded(h) /\ Cleared
        /\ Len(frame[h].messages_json) = 3
        /\ frame[h].messages_json[1].timestamp = frame[h].messages_json[2].timestamp
        /\ frame[h].messages_json[2].timestamp > frame[h].messages_json[3].timestamp

\* C19: between clears the collection is append-only: a step of the running
\* service leaves every document in place with its fields and adds at most
\* one at the end; only the clear of startup_event removes documents.
C19_AppendOnlyBetweenClears ==
    [][ /\ phase = "up" =>
             /\ Len(log') \in {Len(log), Len(log) + 1}
             /\ SubSeq(log', 1, Len(log)) = log
        /\ phase = "boot" => log' \in {log, DeleteMany(log)} ]_vars

C19_Witness ==
    \E h \in Msgs :
        /\ Returned(h) /\ frame[h].status = "success"
        /\ Len(log) = 3
        /\ log[1] = OldDocument
        /\ log[2].body = h

\* handler h holds a Claimed result whose delay is "0"
DelayZero(h) ==
    /\ frame[h].status = "success"
    /\ frame[h].pc \in {"decide", "notify"}
    /\ DelayValue(frame[h].gpt_response) = "0"

\* C20: a handler whose admission is Claimed with the delay "0" publishes
\* nothing and creates no send_delayed_message task: it goes on to the
\* WhatsApp notification and returns, and the queue stays empty.
C20_DelayZeroSchedulesNothing ==
    /\ [](\A h \in Msgs :
            DelayZero(h) =>
                /\ task[h] = TaskInit
                /\ frame[h].published = "unset"
                /\ h \notin markers
                /\ Len(queue) = 0)
    /\ [][\A h \in Msgs :
            DelayZero(h) =>
                /\ frame'[h].pc \in {"decide", "notify", "done"}
                /\ frame'[h].published = "unset"
                /\ task' = task /\ timers' = timers
                /\ queue' = queue /\ markers' = markers]_vars
    /\ [](\A h \in Msgs :
            (Returned(h) /\ frame[h].status = "success"
                         /\ frame[h].published = "unset") => task[h] = TaskInit)

C20_Witness ==
    \E h \in Msgs :
        /\ Returned(h) /\ frame[h].status = "success"
        /\ frame[h].published = "unset"
        /\ frame[h].response = "empty"
        /\ Len(frame[h].calls) = 1
        /\ Len(queue) = 0

\* this step is the return of handler h after it armed its dispatch
ArmedReturn(h) == frame[h].pc = "arm" /\ frame'[h].pc = "done"

\* C21: when a handler whose admission is Claimed with a nonzero delay
\* returns, exactly one dispatch is armed for it and the queue depth is 1.
C21_ArmedWithDepthOne ==
    [][\A h \in Msgs :
         ArmedReturn(h) =>
            /\ Len(queue') = 1
            /\ task'[h].pc = "sleeping"
            /\ Cardinality({i \in 1..Len(timers') : timers'[i] = h}) = 1]_vars

\* a and b are Claimed and each tested the depth while no occupancy marker
\* was in the queue
BothClaimed(a, b) ==
    /\ a # b
    /\ frame[a].status = "success" /\ frame[b].status = "success"
    /\ ~frame[a].after_marker /\ ~frame[b].after_marker

NextPending(h) ==
    /\ frame[h].pc = "pending"
    /\ \A g \in Msgs : g < h => frame[g].pc # "pending"
    /\ running = NoTask

\* C23: the handler of a deferred message has returned its response before
\* the task makes any call of the Responder, a task waiting on its timer
\* does not hold the loop, and the next pending request can start while
\* dispatches are waiting.
C23_DispatchDoesNotBlock ==
    /\ \A d \in Msgs :
          /\ task[d].pc # "none" =>
                Returned(d) /\ frame[d].response = "empty"
          /\ task[d].pc = "sleeping" =>
                task[d].calls = << >> /\ running # Dispatch(d)
    /\ \A h \in Msgs : NextPending(h) => ENABLED Begin(h)

C23_Witness ==
    \E d, h \in Msgs :
        /\ d < h
        /\ task[d].pc = "sleeping" /\ task[d].calls = << >>
        /\ Returned(d)
        /\ Returned(h)

\* handler h holds the success result of process_message_if_queue_empty
HoldsResult(h) ==
    /\ frame[h].status = "success"
    /\ frame[h].pc \in {"decide", "publish", "arm", "notify"}

\* C24: in a Claimed result total_messages_in_db is the number of documents
\* in the collection after the insert of this message, and it is at least 1.
C24_TotalIsLogCount ==
    \A h \in Msgs :
        HoldsResult(h) =>
            /\ frame[h].total_messages = CountDocuments(log)
            /\ frame[h].total_messages >= 1

\* handler h holds the skipped result of process_message_if_queue_empty
HoldsSkipped(h) == frame[h].status = "skipped" /\ frame[h].pc = "fallback"

\* C25: a Skipped result reports the depth that caused the skip: the count
\* it reports is at least 1 and is the depth observed by the emptiness test.
C25_SkippedReportsDepth ==
    \A h \in Msgs :
        HoldsSkipped(h) =>
            /\ frame[h].message_count >= 1
            /\ frame[h].message_count = frame[h].depth

\* ------------------------------------------ properties of the extraction
\* the function has returned
Extracted == delay_data # NoData

\* the decision {"delay": v}
Decision(v) == DictVal(<< <<"delay", StrVal(v)>> >>)

\* no value is written after a "delay": label in t
NoDelayValue(t) ==
    ~\E j \in 1..(Len(t) - 2) :
        t[j] = QDelay /\ t[j + 1] = Colon /\ t[j + 2] \in StringTokens \cup {Five}

\* C26: for every reply from which no delay value can be parsed, the
\* extraction returns the decision {"delay": "0"}.
C26_NoDelayGivesZero ==
    (Extracted /\ NoDelayValue(response_content)) => delay_data = Decision("0")

\* the fragment {"delay": "2 hours"}
Fragment == <<LBrace, QDelay, Colon, QHours, RBrace>>

\* t holds the fragment amid prose that does not quote "delay" itself
FragmentAmidProse(t) ==
    \E i \in 1..(Len(t) - 4) :
        /\ SubSeq(t, i, i + 4) = Fragment
        /\ \A j \in (1..Len(t)) \ (i..(i + 4)) : t[j] # QDelay

\* the entire reply is one JSON object
IsObject(t) == IsValue(t) /\ t[1] = LBrace

\* a closing brace other than the last token follows a "delay" of t
ClosedAfterDelay(t) ==
    \E j, k \in 1..Len(t) : t[j] = QDelay /\ j < k /\ k < Len(t) /\ t[k] = RBrace

HasStrDelay(v) ==
    /\ v.kind = "dict"
    /\ \E i \in 1..Len(v.items) :
          v.items[i][1] = "delay" /\ v.items[i][2].kind = "str"

\* C28: analyze_time_sensitive_conversation always returns a dictionary
\* that has a "delay" key with a string value.
C28_AlwaysStrDelayDict == Extracted => HasStrDelay(delay_data)

\* ------------------------------------------- properties of the services
\* the last call was a clear_all_messages that reached the store
Clears(c) == c.op = "clear_all_messages" /\ ~c.raised

\* clear_all_messages was called twice in a row
ClearedTwice == Len(invoked) = 2 /\ Clears(invoked[1]) /\ Clears(invoked[2])

\* C29: clear_all_messages is idempotent: after a call of it the count of
\* the collection is 0, and a second call in a row finds nothing to delete
\* and returns True as well.
C29_ClearTwice ==
    /\ (invoked # << >> /\ Clears(Last)) =>
          CountDocuments(log) = 0 /\ Last.ret = "True"
    /\ ClearedTwice =>
          /\ invoked[1].ret = "True" /\ invoked[2].ret = "True"
          /\ invoked[2].count = 0

C29_Witness ==
    /\ ClearedTwice
    /\ invoked[1].count >= 1
    /\ invoked[2].ret = "True"
    /\ CountDocuments(log) = 0

\* C30: declare_queue on a queue that exists returns True and leaves its
\* depth as it was; with the declare they perform, is_queue_empty and
\* get_queue_message_count leave the depth as it was, publish_message adds
\* exactly one entry and purge_queue empties the queue.
C30_DeclareKeepsDepth ==
    [][/\ DeclareQueue =>
             /\ Len(queue') = Len(queue)
             /\ ~Last'.raised => Last'.ret = "True"
       /\ (IsQueueEmpty \/ GetQueueMessageCount) =>
             /\ Len(queue') = Len(queue)
             /\ ~Last'.raised => Last'.count = Len(queue)
       /\ PublishMessage =>
             Len(queue') = IF Last'.raised THEN Len(queue) ELSE Len(queue) + 1
       /\ PurgeQueue =>
             Len(queue') = IF Last'.raised THEN Len(queue) ELSE 0]_vars

C30_Witness ==
    /\ Len(invoked) = 2
    /\ invoked[1].op = "publish_message" /\ ~invoked[1].raised
    /\ invoked[2].op = "declare_queue" /\ ~invoked[2].raised
    /\ invoked[2].ret = "True"
    /\ Len(queue) = 2

\* C31: when startup_event has completed with both connections
\* established, the queue depth is 0 and the collection is empty, whatever
\* they held before.
C31_StartupClears ==
    [][\A purge_ok \in BOOLEAN, clear_ok \in BOOLEAN :
         StartupWith(TRUE, purge_ok, TRUE, clear_ok) =>
            Len(queue') = 0 /\ CountDocuments(log') = 0]_vars

\* C32: a message that arrives while the queue is not empty is published
\* to the queue: when its handler returns, the depth is one more than the
\* depth the handler found.
C32_SkippedIsPublished ==
    [][\A h \in Msgs :
         (HoldsSkipped(h) /\ Returned(h)') => Len(queue') = Len(queue) + 1]_vars

\* the decision is a dict whose "delay" is a string other than "0" that is
\* not blank
StringDelay(g) ==
    g.isdict /\ g.hasdelay /\ g.isstr /\ g.delay \notin {"0", "", " "}

\* the number of entries of sequence s that equal x
Occurrences(s, x) == Cardinality({i \in 1..Len(s) : s[i] = x})

\* C34: the publish attempt and the creation of the send_delayed_message
\* task go together: a handler attempts one publish and then creates one
\* task, or does neither.  It does both exactly when its admission is
\* Claimed with a dict whose "delay" is a string that is not "0" and not
\* blank; a dict without "delay" and a value that is not a dict go the way
\* of the delay "0".
C34_PublishAndArmPaired ==
    /\ [](\A h \in Msgs :
            /\ Returned(h) =>
                  (frame[h].published # "unset" <=> task[h] # TaskInit)
            /\ task[h] # TaskInit => Returned(h) /\ frame[h].status = "success"
            /\ frame[h].pc = "arm" =>
                  frame[h].published # "unset" /\ task[h] = TaskInit
            /\ frame[h].pc \notin {"arm", "done"} =>
                  frame[h].published = "unset" /\ task[h] = TaskInit
            /\ Occurrences(timers, h) <= 1
            /\ Occurrences(queue, Payload(From(h), TwilioNumber, h)) <= 1)
    /\ [][\A h \in Msgs :
            LET g == frame[h].gpt_response
            IN  /\ (frame[h].pc = "decide" /\ frame'[h].pc # "decide") =>
                     /\ frame'[h].pc = "publish" <=> StringDelay(g)
                     /\ (~g.isdict \/ ~g.hasdelay \/ (g.isstr /\ g.delay = "0"))
                           => frame'[h].pc = "notify"
                /\ frame[h].pc = "publish" =>
                     frame'[h].pc \in {"publish", "arm"}
                /\ frame[h].pc = "arm" =>
                     \/ frame'[h].pc = "arm" /\ task'[h] = TaskInit
                     \/ /\ Returned(h)' /\ task'[h].pc = "sleeping"
                        /\ timers' = Append(timers, h)
                /\ frame'[h].pc = "arm" => frame[h].pc \in {"publish", "arm"}
                /\ frame'[h].pc = "publish" => frame[h].pc \in {"decide", "publish"}]_vars

C34_Witness ==
    \E a \in Msgs, b \in Msgs :
        /\ Returned(a) /\ frame[a].published = "failed"
        /\ task[a].pc = "sleeping"
        /\ Returned(b) /\ frame[b].status = "success"
        /\ frame[b].published = "unset" /\ task[b] = TaskInit

\* this step is the purge of task d and it succeeds
Purges(d) == task[d].pc = "purge" /\ task'[d].purged = "ok"

\* handler h finds the queue empty and goes on to the store
ClaimStep(h) == CheckQueue(h) /\ frame'[h].is_empty = "True"

\* C35: the purge of a send_delayed_message task removes every entry of the
\* queue, not only the entry of its own message: after it the depth is 0
\* even when other tasks are still waiting on their timers, and a handler
\* that checks the queue then finds it empty.
C35_PurgeRemovesAll ==
    /\ [][\A d \in Msgs : Purges(d) => Len(queue') = 0 /\ markers' = {}]_vars
    /\ [](\A h \in Msgs :
            (running = Handler(h) /\ frame[h].pc = "check" /\ Len(queue) = 0)
                => ENABLED ClaimStep(h))

C35_Witness ==
    \E a \in Msgs, b \in Msgs, c \in Msgs :
        /\ task[a].purged = "ok"
        /\ frame[b].published = "ok" /\ task[b].pc = "sleeping"
        /\ frame[c].status = "success"
        /\ a < b /\ b < c

\* every entry of the queue was published by a handler of this run and no
\* publish of a handler has failed
OwnPublishesOnly ==
    /\ \A i \in 1..Len(queue) : queue[i] # OldEntry
    /\ \A h \in Msgs : frame[h].published # "failed"

\* the send_delayed_message tasks that were created and have not ended
Armed == {d \in Msgs : task[d].pc \notin {"none", "done"}}

\* C36: handlers run one at a time between the depth check and the publish;
\* when nothing else publishes to the queue and no publish fails, the depth
\* is 0 or 1 and at most one send_delayed_message task is pending.
C36_DepthAtMostOne ==
    OwnPublishesOnly => Len(queue) <= 1 /\ Cardinality(Armed) <= 1

C36_Witness ==
    \E a \in Msgs, b \in Msgs :
        /\ OwnPublishesOnly
        /\ a < b
        /\ task[a].purged = "ok"
        /\ task[b].pc = "sleeping" /\ Len(queue) = 1 /\ Armed = {b}

\* C37: in a Claimed result total_messages_in_db is the number of records
\* of the transcript given to the Analyzer in the same call.
C37_TotalIsTranscriptLength ==
    [][\A h \in Msgs :
         Analyzed(h) =>
            frame[h].total_messages = Len(frame[h].messages_json)]_vars

\* C33: quick_question leaves conversation_history as it was, when the
\* call of the API succeeds and when it raises, whatever calls of
\* add_message, get_response and reset_conversation built the history.
C33_QuickQuestionKeepsHistory ==
    [][(\E question \in UserMessages : QuickQuestion(question)) =>
          conversation_history' = conversation_history]_vars

C33_Witness ==
    /\ answer.op = "quick_question" /\ answer.raised
    /\ Len(conversation_history) = 4
    /\ conversation_history[2] = Entry("user", Str("hi"))
    /\ conversation_history[3] = Entry("assistant", Str("hello"))
    /\ conversation_history[4] = Entry("system", None)

\* this step is a call of get_response(user_message)
Responds(user_message) ==
    GetResponse(user_message) /\ answer'.op = "get_response"

\* C38: conversation_history always starts with the system message.
\* reset_conversation makes it that single entry; a get_response that
\* succeeds appends the user message and then the reply it returns; a
\* get_response that fails returns None and leaves the user message
\* appended with no reply after it.
C38_HistoryStartsWithSystem ==
    /\ [](/\ Len(conversation_history) >= 1
          /\ conversation_history[1] = Entry("system", SystemMessage))
    /\ [][ResetConversation =>
            conversation_history' = <<Entry("system", SystemMessage)>>]_vars
    /\ [][\A user_message \in UserMessages :
            Responds(user_message) =>
               IF answer'.raised
               THEN /\ answer'.value = None
                    /\ conversation_history' =
                          conversation_history \o <<Entry("user", user_message)>>
               ELSE /\ conversation_history' =
                          conversation_history
                             \o <<Entry("user", user_message),
                                  Entry("assistant", answer'.value)>>]_vars

C38_Witness ==
    /\ answer.op = "get_response" /\ answer.raised
    /\ Len(conversation_history) = 4
    /\ conversation_history[2] = Entry("user", Str("hi"))
    /\ conversation_history[3] = Entry("assistant", Str("hello"))
    /\ conversation_history[4] = Entry("user", Str("hi"))
====
